---- MODULE Spec2Model ----
(***************************************************************************)
(* The assessment controller of lms-backend (src/unnamed/part_001): the    *)
(* assessment store, and the create, update, delete, submit and grade      *)
(* request handlers.                                                        *)
(*                                                                          *)
(* Numbers: times are milliseconds since an epoch (JavaScript Date         *)
(* values); grade points are kept in hundredths of a point, so that        *)
(* rawPoints * (1 - latePenalty/100 * daysLate) is the exact integer       *)
(* rawPoints * (100 - latePenalty * daysLate).                             *)
(***************************************************************************)
EXTENDS Integers, Sequences, FiniteSets, TLC

\* ------------------------------------------------------------------ bounds
\* Times range over whole days 0..MaxDays, each with and without one second.
MaxDays == 1
\* Submission ids handed out (each push of a submission takes a fresh one).
MaxIds == 2
\* Concurrent submit requests in flight (SpecConc).
NumReqs == 2

\* --------------------------------------------------------------- constants
\* 1000 * 60 * 60 * 24, the divisor of gradeSubmission's daysLate.
MsPerDay == 1000 * 60 * 60 * 24

Times == {d * MsPerDay + e : d \in 0..MaxDays, e \in {0, 1000}}
LastTime == MaxDays * MsPerDay + 1000
\* The due dates requests carry: the first and the last instant of Times.
DueDates == {0, LastTime}

\* Principals (req.user): the instructor owning course c1, an admin, and two
\* students.
Users == {"ins1", "adm", "stu1", "stu2"}
Students == {"stu1", "stu2"}
IsAdmin(u) == u = "adm"

\* The course collection: Course.findById(courseId) and the course's instructor.
CourseIds == {"c1"}
CourseInstructor(c) == "ins1"

AssessmentIds == {"a1"}

\* ------------------------------------------------------------------ state
VARIABLES
  store,    \* the Assessment collection: a function from the ids of the stored documents
  now,      \* the wall clock, what new Date() returns
  nextId,   \* the next fresh submission _id
  last,     \* the response being sent for the request just handled, if any
  reqs      \* the submit requests in flight (SpecConc): position and local variables

vars == <<store, now, nextId, last, reqs>>

NoGrade == [points |-> -1, gradedAt |-> -1, gradedBy |-> "nobody"]
NoSub == [id |-> 0, student |-> "nobody", content |-> "", isLate |-> FALSE,
          submittedAt |-> -1, status |-> "none", grade |-> NoGrade]
NoDoc == [course |-> "none", instructor |-> "nobody", maxPoints |-> 0, dueDate |-> -1,
          allowLateSubmission |-> FALSE, latePenalty |-> 0, isPublished |-> FALSE,
          submissions |-> <<>>]

\* A response: the operation, its outcome ("ok" or the kind of failure), the
\* principal and the assessment id of the request; for submit the content of
\* the body and, on success, the id of the new submission; for a successful
\* grade the submission id and the raw points of the body.
Response(op, result, user, aid, content, sid, points) ==
  [op |-> op, result |-> result, user |-> user, aid |-> aid, content |-> content,
   sid |-> sid, points |-> points]

NoResponse == Response("none", "none", "nobody", "a1", "", 0, 0)

IdleReq == [pc |-> "idle", user |-> "nobody", aid |-> "a1", doc |-> NoDoc, sub |-> NoSub,
            result |-> "none"]

\* -------------------------------------------------------------- helpers
\* Mutant: the ownership check forgets the admin.
NotOwner_InstructorOnly(doc, u) == doc.instructor # u

\* assessment.instructor.toString() !== req.user._id.toString() && !req.user.isAdmin
NotOwner(doc, u) == doc.instructor # u /\ ~IsAdmin(u)

\* assessment.submissions.find(s => s.student.toString() === req.user._id.toString())
HasSubmission(doc, u) == \E i \in 1..Len(doc.submissions) : doc.submissions[i].student = u

\* Mutant: a submission at the due date itself counts as late.
IsLate_AtOrAfter(t, doc) == t >= doc.dueDate

\* now > assessment.dueDate
IsLate(t, doc) == t > doc.dueDate

\* The defaults the Submission sub-schema gives a pushed submission.
DefaultStatus == "submitted"
\* The default of Assessment.isPublished.
DefaultIsPublished == FALSE

\* The submission object of submitAssessment, as the document array casts it.
NewSubmission(id, u, content, t, doc) ==
  [id |-> id, student |-> u, content |-> content, isLate |-> IsLate(t, doc),
   submittedAt |-> t, status |-> DefaultStatus, grade |-> NoGrade]

\* Mutant: the duplicate check comes before the publication check.
SubmitOutcome_DuplicateFirst(doc, u, t) ==
  IF HasSubmission(doc, u) THEN "DuplicateSubmission"
  ELSE IF ~doc.isPublished THEN "NotPublished"
  ELSE IF IsLate(t, doc) /\ ~doc.allowLateSubmission THEN "SubmissionClosed"
  ELSE "ok"

\* Mutant: the deadline check comes before the duplicate check.
SubmitOutcome_DeadlineFirst(doc, u, t) ==
  IF ~doc.isPublished THEN "NotPublished"
  ELSE IF IsLate(t, doc) /\ ~doc.allowLateSubmission THEN "SubmissionClosed"
  ELSE IF HasSubmission(doc, u) THEN "DuplicateSubmission"
  ELSE "ok"

\* The checks of submitAssessment on the loaded document, in the code's order.
SubmitOutcome(doc, u, t) ==
  IF ~doc.isPublished THEN "NotPublished"
  ELSE IF HasSubmission(doc, u) THEN "DuplicateSubmission"
  ELSE IF IsLate(t, doc) /\ ~doc.allowLateSubmission THEN "SubmissionClosed"
  ELSE "ok"

\* Mutant: save() writes the whole document the request loaded.
SaveSubmission_WholeDocument(stored, loaded, sub) ==
  [loaded EXCEPT !.submissions = Append(@, sub)]

\* assessment.submissions.push(submission); await assessment.save(): Mongoose's
\* Document#save sends the tracked change only, an array push as
\* $push {submissions: {$each: [submission]}}, which the store applies to the
\* array it holds at that moment (stored), not to the one the request loaded.
SaveSubmission(stored, loaded, sub) ==
  [stored EXCEPT !.submissions = Append(@, sub)]

\* ------------------------------------------------------- late penalty
\* Mutant: the quotient is rounded down.
Ceil_Floor(x, y) == x \div y

\* Math.ceil(x / y) for y > 0: the least integer not below the quotient.
Ceil(x, y) == -((-x) \div y)

\* Math.ceil((submission.submittedAt - assessment.dueDate) / (1000*60*60*24))
DaysLate(sub, doc) == Ceil(sub.submittedAt - doc.dueDate, MsPerDay)

\* Math.max(0, x)
Max0(x) == IF x > 0 THEN x ELSE 0

\* Mutant: the penalty is applied whether or not the submission is late.
PenaltyApplies_IgnoresIsLate(sub, doc) == doc.latePenalty > 0

\* submission.isLate && assessment.latePenalty > 0
PenaltyApplies(sub, doc) == sub.isLate /\ doc.latePenalty > 0

\* finalPoints of gradeSubmission, in hundredths of a point:
\* penalty = latePenalty/100 * daysLate; finalPoints = max(0, points * (1 - penalty)).
FinalPoints(sub, doc, p) ==
  IF PenaltyApplies(sub, doc)
  THEN Max0(p * (100 - doc.latePenalty * DaysLate(sub, doc)))
  ELSE p * 100

\* assessment.submissions.id(submissionId): the position of the first
\* submission with that _id, 0 when there is none.
SubIndex(doc, sid) ==
  IF \E i \in 1..Len(doc.submissions) : doc.submissions[i].id = sid
  THEN CHOOSE i \in 1..Len(doc.submissions) :
         /\ doc.submissions[i].id = sid
         /\ \A j \in 1..(i - 1) : doc.submissions[j].id # sid
  ELSE 0

\* Mutant: a regrade applies the penalty to the points already stored.
Graded_FromStored(sub, doc, p, u, t) ==
  [sub EXCEPT !.grade = [points |-> IF sub.status = "graded" /\ PenaltyApplies(sub, doc)
                                    THEN Max0(sub.grade.points
                                              * (100 - doc.latePenalty * DaysLate(sub, doc)))
                                         \div 100
                                    ELSE FinalPoints(sub, doc, p),
                         gradedAt |-> t, gradedBy |-> u],
              !.status = "graded"]

\* submission.grade = {points, feedback, gradedAt, gradedBy}; submission.status = 'graded'
Graded(sub, doc, p, u, t) ==
  [sub EXCEPT !.grade = [points |-> FinalPoints(sub, doc, p), gradedAt |-> t, gradedBy |-> u],
              !.status = "graded"]

\* ------------------------------------------------------ request inputs
\* Create bodies: the well-formed ones for a course that exists, and of each
\* one with maxPoints 0 (fails the Joi schema), one with latePenalty 101 (fails
\* the Joi schema) and one for a course cX that does not exist.
WellFormedBodies(dues, penalties) ==
  [courseId : CourseIds, maxPoints : {100}, dueDate : dues,
   allowLateSubmission : BOOLEAN, latePenalty : penalties]
CreateBodies(dues, penalties) ==
  WellFormedBodies(dues, penalties)
  \cup {[b EXCEPT !.maxPoints = 0] : b \in WellFormedBodies({0}, {20})}
  \cup {[b EXCEPT !.latePenalty = 101] : b \in WellFormedBodies({0}, {20})}
  \cup {[b EXCEPT !.courseId = "cX"] : b \in WellFormedBodies({0}, {20})}

\* schema.validate(req.body) of createAssessment: maxPoints min(1), latePenalty min(0).max(100)
ValidCreate(body) == body.maxPoints >= 1 /\ body.latePenalty >= 0 /\ body.latePenalty <= 100

\* Submit bodies: "" stands for a body whose content is missing or malformed.
ContentInputs == {"", "essay"}
\* schema.validate(req.body) of submitAssessment: content is required
ValidSubmit(content) == content # ""

\* schema.validate(req.body) of gradeSubmission: points min(0)
ValidGrade(p) == p >= 0

\* Update bodies (req.body is handed to findByIdAndUpdate as it comes), one field
\* each: a scalar field of the assessment ...
FieldBodies(dues, penalties) ==
  {[isPublished |-> b] : b \in BOOLEAN}
  \cup {[dueDate |-> t] : t \in dues}
  \cup {[allowLateSubmission |-> b] : b \in BOOLEAN}
  \cup {[latePenalty |-> x] : x \in penalties}
\* ... or a submissions array: the stored one with the isLate flag of one entry
\* inverted, or with a second entry (of a fresh id) for the student of the first.
SubmissionBodies(doc, id) ==
  {[submissions |-> [doc.submissions EXCEPT ![i].isLate = ~@]] :
     i \in 1..Len(doc.submissions)}
  \cup (IF Len(doc.submissions) >= 1 /\ id <= MaxIds
        THEN {[submissions |-> Append(doc.submissions, [doc.submissions[1] EXCEPT !.id = id])]}
        ELSE {})

\* findByIdAndUpdate(id, req.body): every field of the body replaces the stored one.
ApplyUpdate(doc, body) ==
  [f \in DOMAIN doc |-> IF f \in DOMAIN body THEN body[f] ELSE doc[f]]

\* The submission ids a submissions array uses.
IdsOf(subs) == {subs[i].id : i \in 1..Len(subs)}

\* The stored document an update body is made from (a client reads it first).
Stored(a) == IF a \in DOMAIN store THEN store[a] ELSE NoDoc

\* ------------------------------------------------------------- actions
Init ==
  /\ store = [a \in {} |-> NoDoc]
  /\ now = 0
  /\ nextId = 1
  /\ last = NoResponse
  /\ reqs = [r \in 1..NumReqs |-> IdleReq]

\* A request that throws: the response, and nothing written.
Fail(op, result, u, a, content) ==
  /\ last' = Response(op, result, u, a, content, 0, 0)
  /\ UNCHANGED <<store, now, nextId, reqs>>

\* The response reaches the client.
Deliver ==
  /\ last # NoResponse
  /\ last' = NoResponse
  /\ UNCHANGED <<store, now, nextId, reqs>>

\* No response is on its way: the next request is taken up, or time passes.
Idle == last = NoResponse

\* The wall clock advances.
Tick(times) ==
  /\ \E t \in times : t > now /\ now' = t
  /\ UNCHANGED <<store, nextId, last, reqs>>

CreateAssessment(u, a, body) ==
  IF ~ValidCreate(body) THEN Fail("create", "ValidationError", u, a, "")
  ELSE IF body.courseId \notin CourseIds THEN Fail("create", "NotFound", u, a, "")
  ELSE IF CourseInstructor(body.courseId) # u /\ ~IsAdmin(u)
    THEN Fail("create", "Forbidden", u, a, "")
  ELSE /\ a \notin DOMAIN store
       /\ store' = [x \in DOMAIN store \cup {a} |->
                      IF x = a
                      THEN [course |-> body.courseId, instructor |-> u,
                            maxPoints |-> body.maxPoints, dueDate |-> body.dueDate,
                            allowLateSubmission |-> body.allowLateSubmission,
                            latePenalty |-> body.latePenalty,
                            isPublished |-> DefaultIsPublished, submissions |-> <<>>]
                      ELSE store[x]]
       /\ last' = Response("create", "ok", u, a, "", 0, 0)
       /\ UNCHANGED <<now, nextId, reqs>>

UpdateAssessment(u, a, body) ==
  IF a \notin DOMAIN store THEN Fail("update", "NotFound", u, a, "")
  ELSE IF NotOwner(store[a], u) THEN Fail("update", "Forbidden", u, a, "")
  ELSE /\ store' = [store EXCEPT ![a] = ApplyUpdate(@, body)]
       /\ nextId' = IF nextId \in IdsOf(store'[a].submissions) THEN nextId + 1 ELSE nextId
       /\ last' = Response("update", "ok", u, a, "", 0, 0)
       /\ UNCHANGED <<now, reqs>>

DeleteAssessment(u, a) ==
  IF a \notin DOMAIN store THEN Fail("delete", "NotFound", u, a, "")
  ELSE IF NotOwner(store[a], u) THEN Fail("delete", "Forbidden", u, a, "")
  ELSE /\ store' = [x \in DOMAIN store \ {a} |-> store[x]]
       /\ last' = Response("delete", "ok", u, a, "", 0, 0)
       /\ UNCHANGED <<now, nextId, reqs>>

\* Mutant: the submission is pushed and saved before the deadline check.
SubmitAssessment_SaveBeforeDeadline(u, a, content) ==
  /\ nextId <= MaxIds
  /\ IF ~ValidSubmit(content) THEN Fail("submit", "ValidationError", u, a, content)
     ELSE IF a \notin DOMAIN store THEN Fail("submit", "NotFound", u, a, content)
     ELSE IF SubmitOutcome(store[a], u, now) \in {"NotPublished", "DuplicateSubmission"}
       THEN Fail("submit", SubmitOutcome(store[a], u, now), u, a, content)
     ELSE /\ store' = [store EXCEPT ![a] =
                 SaveSubmission(@, @, NewSubmission(nextId, u, content, now, @))]
          /\ nextId' = nextId + 1
          /\ last' = Response("submit", SubmitOutcome(store[a], u, now), u, a, content,
                              nextId, 0)
          /\ UNCHANGED <<now, reqs>>

\* submitAssessment run to completion.
SubmitAssessment(u, a, content) ==
  /\ nextId <= MaxIds
  /\ IF ~ValidSubmit(content) THEN Fail("submit", "ValidationError", u, a, content)
     ELSE IF a \notin DOMAIN store THEN Fail("submit", "NotFound", u, a, content)
     ELSE IF SubmitOutcome(store[a], u, now) # "ok"
       THEN Fail("submit", SubmitOutcome(store[a], u, now), u, a, content)
     ELSE /\ store' = [store EXCEPT ![a] =
                 SaveSubmission(@, @, NewSubmission(nextId, u, content, now, @))]
          /\ nextId' = nextId + 1
          /\ last' = Response("submit", "ok", u, a, content, nextId, 0)
          /\ UNCHANGED <<now, reqs>>

\* Mutant: the submission is looked up before the ownership check.
GradeSubmission_SubmissionFirst(u, a, sid, p) ==
  IF ~ValidGrade(p) THEN Fail("grade", "ValidationError", u, a, "")
  ELSE IF a \notin DOMAIN store THEN Fail("grade", "NotFound", u, a, "")
  ELSE IF SubIndex(store[a], sid) = 0 THEN Fail("grade", "NotFound", u, a, "")
  ELSE IF NotOwner(store[a], u) THEN Fail("grade", "Forbidden", u, a, "")
  ELSE /\ store' = [store EXCEPT ![a].submissions[SubIndex(store[a], sid)] =
                      Graded(@, store[a], p, u, now)]
       /\ last' = Response("grade", "ok", u, a, "", sid, p)
       /\ UNCHANGED <<now, nextId, reqs>>

\* gradeSubmission run to completion.
GradeSubmission(u, a, sid, p) ==
  IF ~ValidGrade(p) THEN Fail("grade", "ValidationError", u, a, "")
  ELSE IF a \notin DOMAIN store THEN Fail("grade", "NotFound", u, a, "")
  ELSE IF NotOwner(store[a], u) THEN Fail("grade", "Forbidden", u, a, "")
  ELSE IF SubIndex(store[a], sid) = 0 THEN Fail("grade", "NotFound", u, a, "")
  ELSE /\ store' = [store EXCEPT ![a].submissions[SubIndex(store[a], sid)] =
                      Graded(@, store[a], p, u, now)]
       /\ last' = Response("grade", "ok", u, a, "", sid, p)
       /\ UNCHANGED <<now, nextId, reqs>>

\* ------------------------------------------------------ read requests
\* The response to a read request: the submissions it returns (get-by-id,
\* list-submissions) or the ids of the assessments it lists (list).
ReadResponse(op, result, user, aid, subs, listed) ==
  [op |-> op, result |-> result, user |-> user, aid |-> aid, content |-> "",
   sid |-> 0, points |-> 0, subs |-> subs, listed |-> listed]

\* A read request that throws.
FailRead(op, result, u, a) ==
  /\ last' = ReadResponse(op, result, u, a, <<>>, {})
  /\ UNCHANGED <<store, now, nextId, reqs>>

\* req.user.isInstructor
IsInstructor(u) == u = "ins1"

\* Mutant: students are shown unpublished assessments too.
ListFilter_NoPublishedFilter(u, course, doc) ==
  /\ course # "" => doc.course = course
  /\ (IsInstructor(u) /\ ~IsAdmin(u)) => doc.instructor = u

\* The filter of getAssessments: the course of the query if there is one,
\* isPublished for a principal who is neither instructor nor admin, and the
\* principal as instructor for an instructor who is not admin.
ListFilter(u, course, doc) ==
  /\ course # "" => doc.course = course
  /\ (~IsInstructor(u) /\ ~IsAdmin(u)) => doc.isPublished
  /\ (IsInstructor(u) /\ ~IsAdmin(u)) => doc.instructor = u

\* getAssessments: the assessments Assessment.find(filter) matches, of which
\* the response carries one page (sorted by dueDate, without submissions).
GetAssessments(u, course) ==
  /\ last' = ReadResponse("list", "ok", u, "a1", <<>>,
                          {a \in DOMAIN store : ListFilter(u, course, store[a])})
  /\ UNCHANGED <<store, now, nextId, reqs>>

\* Mutant: the submissions are returned as stored to every principal.
VisibleSubmissions_Unfiltered(doc, u) == doc.submissions

\* The submissions getAssessmentById returns: all of them to the assessment's
\* instructor and to an admin, to anyone else those whose student they are.
VisibleSubmissions(doc, u) ==
  IF doc.instructor # u /\ ~IsAdmin(u)
  THEN SelectSeq(doc.submissions, LAMBDA s : s.student = u)
  ELSE doc.submissions

\* getAssessmentById: the filtered array is assigned to the loaded document,
\* which is sent and never saved.
GetAssessmentById(u, a) ==
  IF a \notin DOMAIN store THEN FailRead("get", "NotFound", u, a)
  ELSE IF store[a].instructor # u /\ ~IsAdmin(u) /\ ~store[a].isPublished
    THEN FailRead("get", "Forbidden", u, a)
  ELSE /\ last' = ReadResponse("get", "ok", u, a, VisibleSubmissions(store[a], u), {})
       /\ UNCHANGED <<store, now, nextId, reqs>>

\* Array.prototype.sort((a, b) => b.submittedAt - a.submittedAt): a stable
\* sort, latest first.
RECURSIVE InsertDesc(_, _)
InsertDesc(s, x) ==
  IF s = <<>> THEN <<x>>
  ELSE IF Head(s).submittedAt >= x.submittedAt THEN <<Head(s)>> \o InsertDesc(Tail(s), x)
  ELSE <<x>> \o s
RECURSIVE SortDesc(_)
SortDesc(s) ==
  IF s = <<>> THEN <<>>
  ELSE InsertDesc(SortDesc(SubSeq(s, 1, Len(s) - 1)), s[Len(s)])

\* .slice(skip, skip + limit) with skip = (page - 1) * limit
Page(s, page, limit) ==
  SubSeq(s, (page - 1) * limit + 1,
         IF page * limit < Len(s) THEN page * limit ELSE Len(s))

\* getAssessmentSubmissions: the array of the loaded document is sorted in
\* place and a page of it sent; the document is never saved.
GetAssessmentSubmissions(u, a, page, limit) ==
  IF a \notin DOMAIN store THEN FailRead("submissions", "NotFound", u, a)
  ELSE IF NotOwner(store[a], u) THEN FailRead("submissions", "Forbidden", u, a)
  ELSE /\ last' = ReadResponse("submissions", "ok", u, a,
                               Page(SortDesc(store[a].submissions), page, limit), {})
       /\ UNCHANGED <<store, now, nextId, reqs>>

\* ------------------------------------------------- specifications
\* Spec: requests run to completion one after the other, each taken up when
\* the response to the one before has been sent. The principals are the owning
\* instructor and two students, who submit; times and due dates are 0 and one
\* second, the late penalty is 20; update bodies include submissions arrays;
\* grade bodies carry -1 or 0 points.
ShortTimes == {0, 1000}
SpecUsers == {"ins1", "stu1", "stu2"}
SpecBodies(doc, id) == FieldBodies(ShortTimes, {20}) \cup SubmissionBodies(doc, id)

Next ==
  \/ Deliver
  \/ Idle /\ Tick(ShortTimes)
  \/ Idle /\ \E u \in SpecUsers, a \in AssessmentIds, body \in CreateBodies(ShortTimes, {20}) :
               CreateAssessment(u, a, body)
  \/ Idle /\ \E u \in SpecUsers, a \in AssessmentIds :
               \E body \in SpecBodies(Stored(a), nextId) : UpdateAssessment(u, a, body)
  \/ Idle /\ \E u \in SpecUsers, a \in AssessmentIds : DeleteAssessment(u, a)
  \/ Idle /\ \E u \in Students, a \in AssessmentIds, c \in ContentInputs :
               SubmitAssessment(u, a, c)
  \/ Idle /\ \E u \in SpecUsers, a \in AssessmentIds, sid \in 1..MaxIds, p \in {-1, 0} :
               GradeSubmission(u, a, sid, p)

Spec == Init /\ [][Next]_vars

\* SpecGrade: requests run to completion one after the other, each taken up
\* when the response to the one before has been sent. The principals are all of
\* Users, of whom stu1 submits; times and due dates are those of Times and
\* DueDates, late penalties 0, 20 and 100; update bodies change scalar fields;
\* grade bodies carry -1, 0 or 90 points.
GradeBodies(doc, id) == FieldBodies(DueDates, {0, 20, 100})

NextGrade ==
  \/ Deliver
  \/ Idle /\ Tick(Times)
  \/ Idle /\ \E u \in Users, a \in AssessmentIds, body \in CreateBodies(DueDates, {0, 20, 100}) :
               CreateAssessment(u, a, body)
  \/ Idle /\ \E u \in Users, a \in AssessmentIds :
               \E body \in GradeBodies(Stored(a), nextId) : UpdateAssessment(u, a, body)
  \/ Idle /\ \E u \in Users, a \in AssessmentIds : DeleteAssessment(u, a)
  \/ Idle /\ \E a \in AssessmentIds, c \in ContentInputs : SubmitAssessment("stu1", a, c)
  \/ Idle /\ \E u \in Users, a \in AssessmentIds, sid \in 1..MaxIds, p \in {-1, 0, 90} :
               GradeSubmission(u, a, sid, p)

SpecGrade == Init /\ [][NextGrade]_vars

\* SpecConc: submit requests whose steps interleave. Every await of
\* submitAssessment is a point where another request's steps may run: the
\* request is received and validated, findById reads the store, the handler
\* continues with the checks and the push on the document it loaded, and
\* save() is applied by the store.
SubmitStart(r, u, a, content) ==
  /\ reqs[r].pc = "idle"
  /\ reqs' = [reqs EXCEPT ![r] =
       IF ~ValidSubmit(content)
       THEN [@ EXCEPT !.pc = "done", !.user = u, !.aid = a, !.result = "ValidationError"]
       ELSE [@ EXCEPT !.pc = "loading", !.user = u, !.aid = a,
                      !.sub = [NoSub EXCEPT !.content = content]]]
  /\ UNCHANGED <<store, now, nextId, last>>

\* const assessment = await Assessment.findById(req.params.id)
SubmitLoad(r) ==
  /\ reqs[r].pc = "loading"
  /\ reqs' = [reqs EXCEPT ![r] =
       IF reqs[r].aid \notin DOMAIN store
       THEN [@ EXCEPT !.pc = "done", !.result = "NotFound"]
       ELSE [@ EXCEPT !.pc = "loaded", !.doc = store[reqs[r].aid]]]
  /\ UNCHANGED <<store, now, nextId, last>>

\* The checks on the loaded document, and assessment.submissions.push(submission)
SubmitCheck(r) ==
  /\ reqs[r].pc = "loaded"
  /\ LET q == reqs[r]
         outcome == SubmitOutcome(q.doc, q.user, now)
     IN IF outcome # "ok"
        THEN /\ reqs' = [reqs EXCEPT ![r] = [@ EXCEPT !.pc = "done", !.result = outcome]]
             /\ UNCHANGED nextId
        ELSE /\ reqs' = [reqs EXCEPT ![r] = [@ EXCEPT !.pc = "saving",
                    !.sub = NewSubmission(nextId, q.user, q.sub.content, now, q.doc)]]
             /\ nextId' = nextId + 1
  /\ UNCHANGED <<store, now, last>>

\* await assessment.save(); res.json(...)
SubmitSave(r) ==
  /\ reqs[r].pc = "saving"
  /\ reqs[r].aid \in DOMAIN store
  /\ store' = [store EXCEPT ![reqs[r].aid] = SaveSubmission(@, reqs[r].doc, reqs[r].sub)]
  /\ reqs' = [reqs EXCEPT ![r] = [@ EXCEPT !.pc = "done", !.result = "ok"]]
  /\ UNCHANGED <<now, nextId, last>>

\* A published assessment without submissions, as create and update leave it.
InitConc ==
  /\ \E due \in ShortTimes, allow \in BOOLEAN :
       store = [a \in AssessmentIds |->
                  [course |-> "c1", instructor |-> "ins1", maxPoints |-> 100,
                   dueDate |-> due, allowLateSubmission |-> allow, latePenalty |-> 20,
                   isPublished |-> TRUE, submissions |-> <<>>]]
  /\ now = 0
  /\ nextId = 1
  /\ last = NoResponse
  /\ reqs = [r \in 1..NumReqs |-> IdleReq]

NextConc ==
  \/ Tick(ShortTimes)
  \/ \E r \in 1..NumReqs, u \in Students, a \in AssessmentIds, c \in ContentInputs :
       SubmitStart(r, u, a, c)
  \/ \E r \in 1..NumReqs : SubmitLoad(r)
  \/ \E r \in 1..NumReqs : SubmitCheck(r)
  \/ \E r \in 1..NumReqs : SubmitSave(r)

SpecConc == InitConc /\ [][NextConc]_vars

\* SpecAccess: requests run to completion one after the other, read requests
\* among them. Two assessments, of which a1 is submitted to and graded; the
\* principals are all of Users; an admin may create for the course of ins1, and
\* update bodies may publish and may name another instructor; times are 0 and
\* one second, the due date is 0 and late submissions are allowed.
AccessIds == {"a1", "a2"}
AccessBodies(doc, id) ==
  {[isPublished |-> b] : b \in BOOLEAN} \cup {[instructor |-> u] : u \in {"ins1", "stu1"}}
AccessCreateBodies == {b \in WellFormedBodies({0}, {20}) : b.allowLateSubmission}

NextAccess ==
  \/ Deliver
  \/ Idle /\ Tick(ShortTimes)
  \/ Idle /\ \E u \in Users, a \in AccessIds, body \in AccessCreateBodies :
               CreateAssessment(u, a, body)
  \/ Idle /\ \E u \in Users, a \in AccessIds :
               \E body \in AccessBodies(Stored(a), nextId) : UpdateAssessment(u, a, body)
  \/ Idle /\ \E u \in Users, a \in AccessIds : DeleteAssessment(u, a)
  \/ Idle /\ \E u \in Students : SubmitAssessment(u, "a1", "essay")
  \/ Idle /\ \E u \in Users, sid \in 1..MaxIds, p \in {-1, 0} :
               GradeSubmission(u, "a1", sid, p)
  \/ Idle /\ \E u \in Users, course \in {"", "c1"} : GetAssessments(u, course)
  \/ Idle /\ \E u \in Users, a \in AccessIds : GetAssessmentById(u, a)
  \/ Idle /\ \E u \in Users, a \in AccessIds, page \in {1, 2}, limit \in {1, 10} :
               GetAssessmentSubmissions(u, a, page, limit)

SpecAccess == Init /\ [][NextAccess]_vars

\* SpecRegrade: grade requests for one assessment, run to completion one after
\* the other, with nothing but the passing of time between them. Request r is
\* logged in reqs[r]: the principal, the raw points of its body, the document
\* it loaded, its outcome and the submission its response carries.
GradeLog(u, a, doc, sub, result, p) ==
  [pc |-> "done", user |-> u, aid |-> a, doc |-> doc, sub |-> sub, result |-> result,
   points |-> p]

\* gradeSubmission run to completion as request r.
GradeRequest(r, u, a, sid, p) ==
  /\ reqs[r].pc = "idle"
  /\ \A q \in 1..(r - 1) : reqs[q].pc = "done"
  /\ IF ~ValidGrade(p)
     THEN /\ reqs' = [reqs EXCEPT ![r] = GradeLog(u, a, NoDoc, NoSub, "ValidationError", p)]
          /\ UNCHANGED store
     ELSE IF a \notin DOMAIN store
     THEN /\ reqs' = [reqs EXCEPT ![r] = GradeLog(u, a, NoDoc, NoSub, "NotFound", p)]
          /\ UNCHANGED store
     ELSE IF NotOwner(store[a], u)
     THEN /\ reqs' = [reqs EXCEPT ![r] = GradeLog(u, a, store[a], NoSub, "Forbidden", p)]
          /\ UNCHANGED store
     ELSE IF SubIndex(store[a], sid) = 0
     THEN /\ reqs' = [reqs EXCEPT ![r] = GradeLog(u, a, store[a], NoSub, "NotFound", p)]
          /\ UNCHANGED store
     ELSE LET graded == Graded(store[a].submissions[SubIndex(store[a], sid)],
                               store[a], p, u, now)
          IN /\ store' = [store EXCEPT ![a].submissions[SubIndex(store[a], sid)] = graded]
             /\ reqs' = [reqs EXCEPT ![r] = GradeLog(u, a, store[a], graded, "ok", p)]
  /\ UNCHANGED <<now, nextId, last>>

\* A published assessment due at 0 that holds one submission of stu1, as
\* create, update and submit leave it.
InitRegrade ==
  /\ \E t \in Times, lp \in {0, 20, 100} :
       /\ now = t
       /\ store = [a \in AssessmentIds |->
                     [course |-> "c1", instructor |-> "ins1", maxPoints |-> 100,
                      dueDate |-> 0, allowLateSubmission |-> TRUE, latePenalty |-> lp,
                      isPublished |-> TRUE,
                      submissions |-> <<NewSubmission(1, "stu1", "essay", t,
                                                      [dueDate |-> 0])>>]]
  /\ nextId = 2
  /\ last = NoResponse
  /\ reqs = [r \in 1..NumReqs |-> IdleReq]

NextRegrade ==
  \/ Tick(Times)
  \/ \E r \in 1..NumReqs, u \in {"ins1", "adm", "stu1"}, a \in AssessmentIds,
        sid \in 1..2, p \in {-1, 0, 90} :
       GradeRequest(r, u, a, sid, p)

SpecRegrade == InitRegrade /\ [][NextRegrade]_vars

\* SpecUpdate: requests run to completion one after the other, with update
\* bodies of every kind: a scalar field within or outside the range create
\* accepts, or a submissions array: the stored one with an isLate flag
\* inverted or an entry added, with a graded entry's status set back, or empty.
\* The principals are the owning instructor and two students, of whom stu1
\* submits; times and due dates are 0 and one second.
UpdateUsers == {"ins1", "stu1", "stu2"}
RangeBodies == {[latePenalty |-> x] : x \in {-1, 101}} \cup {[maxPoints |-> 0]}
StatusBodies(doc) ==
  {[submissions |-> [doc.submissions EXCEPT ![i].status = "submitted"]] :
     i \in {j \in 1..Len(doc.submissions) : doc.submissions[j].status = "graded"}}
UpdateBodies(doc, id) ==
  FieldBodies(ShortTimes, {20}) \cup RangeBodies \cup SubmissionBodies(doc, id)
  \cup StatusBodies(doc) \cup {[submissions |-> <<>>]}

NextUpdate ==
  \/ Deliver
  \/ Idle /\ Tick(ShortTimes)
  \/ Idle /\ \E u \in UpdateUsers, a \in AssessmentIds, body \in CreateBodies({0}, {20}) :
               CreateAssessment(u, a, body)
  \/ Idle /\ \E u \in UpdateUsers, a \in AssessmentIds :
               \E body \in UpdateBodies(Stored(a), nextId) : UpdateAssessment(u, a, body)
  \/ Idle /\ \E u \in UpdateUsers, a \in AssessmentIds : DeleteAssessment(u, a)
  \/ Idle /\ \E a \in AssessmentIds : SubmitAssessment("stu1", a, "essay")
  \/ Idle /\ \E u \in UpdateUsers, a \in AssessmentIds, sid \in 1..MaxIds :
               GradeSubmission(u, a, sid, 0)
  \/ Idle /\ \E u \in UpdateUsers, a \in AssessmentIds : GetAssessmentById(u, a)
  \/ Idle /\ \E u \in UpdateUsers, a \in AssessmentIds :
               GetAssessmentSubmissions(u, a, 1, 10)

SpecUpdate == Init /\ [][NextUpdate]_vars

\* ------------------------------------------------------------ claims
\* The assessment and the submission a successful grade response is about.
GradedOk == last.op = "grade" /\ last.result = "ok"
GradedDoc == store[last.aid]
GradedSub == GradedDoc.submissions[SubIndex(GradedDoc, last.sid)]
\* submittedAt - dueDate of that submission, against the due date now stored.
GradedLateness == GradedSub.submittedAt - GradedDoc.dueDate

\* A step that handles a submit request whose body passed validation, for an
\* assessment that exists (a handler is the only step that writes a response).
SubmitStep ==
  /\ last = NoResponse
  /\ last'.op = "submit"
  /\ ValidSubmit(last'.content)
  /\ last'.aid \in DOMAIN store
\* The step appended exactly one submission, of the requesting principal, to
\* the submissions of the assessment and changed nothing else in the store.
Appended(late) ==
  LET a == last'.aid
      old == store[a].submissions
      new == store'[a].submissions
  IN /\ last'.result = "ok"
     /\ store' = [store EXCEPT ![a].submissions = new]
     /\ Len(new) = Len(old) + 1
     /\ SubSeq(new, 1, Len(old)) = old
     /\ new[Len(new)].student = last'.user
     /\ new[Len(new)].isLate = late
     /\ new[Len(new)].submittedAt = now
     /\ new[Len(new)].status = "submitted"

\* C1: in every state requests run one after the other reach, the submissions
\* of every assessment hold at most one entry per student.
C1_OneSubmissionPerStudent ==
  \A a \in DOMAIN store :
    \A i, j \in 1..Len(store[a].submissions) :
      i # j => store[a].submissions[i].student # store[a].submissions[j].student

\* C2: of the interleaved submit requests of one student to one assessment at
\* most one succeeds, and the store never holds two entries for a student.
C2_ConcurrentSameStudent ==
  /\ \A r1, r2 \in 1..NumReqs :
       (/\ r1 # r2
        /\ reqs[r1].user = reqs[r2].user
        /\ reqs[r1].aid = reqs[r2].aid
        /\ reqs[r1].pc = "done" /\ reqs[r1].result = "ok"
        /\ reqs[r2].pc = "done")
       => reqs[r2].result # "ok"
  /\ C1_OneSubmissionPerStudent

\* C3: every interleaved submit request that reported success has its
\* submission in the stored submissions, whatever was saved after it.
C3_NoAppendDropped ==
  \A r \in 1..NumReqs :
    (reqs[r].pc = "done" /\ reqs[r].result = "ok")
    => /\ reqs[r].aid \in DOMAIN store
       /\ \E i \in 1..Len(store[reqs[r].aid].submissions) :
            store[reqs[r].aid].submissions[i] = reqs[r].sub
\* Two students' requests both loaded the assessment while it had no
\* submission, both succeeded, and both submissions are stored.
C3_Witness ==
  /\ reqs[1].pc = "done" /\ reqs[1].result = "ok"
  /\ reqs[2].pc = "done" /\ reqs[2].result = "ok"
  /\ reqs[1].user # reqs[2].user
  /\ reqs[1].doc.submissions = <<>> /\ reqs[2].doc.submissions = <<>>
  /\ Len(store["a1"].submissions) = 2

\* C4: a successful grade with raw points p stores points f, 0 <= f <= p.
C4_PointsWithinRaw ==
  GradedOk => /\ GradedSub.grade.points >= 0
              /\ GradedSub.grade.points <= 100 * last.points

\* C5 (as claimed): a successful grade with raw points p stores exactly p if and
\* only if the submission is not late or latePenalty is 0.
C5_RawIffNotPenalised ==
  GradedOk => (GradedSub.grade.points = 100 * last.points
               <=> (~GradedSub.isLate \/ GradedDoc.latePenalty = 0))
\* C5 (amended): a successful grade with raw points p stores exactly p if and
\* only if the submission is not late, or latePenalty is not above 0, or p is 0,
\* or 0 days are charged (submittedAt is within a day at or before the due date
\* stored at grading).
C5_RawIffNothingDeducted ==
  GradedOk => (GradedSub.grade.points = 100 * last.points
               <=> \/ ~GradedSub.isLate
                   \/ GradedDoc.latePenalty <= 0
                   \/ last.points = 0
                   \/ (GradedLateness > -MsPerDay /\ GradedLateness <= 0))
\* A late submission under a positive penalty was graded with raw points 0.
C5_Witness ==
  /\ GradedOk
  /\ GradedSub.isLate /\ GradedDoc.latePenalty > 0 /\ GradedLateness > 0
  /\ last.points = 0 /\ GradedSub.grade.points = 0

\* C6: a late submission graded under latePenalty > 0 gets
\* max(0, p * (1 - latePenalty/100 * daysLate)), daysLate being
\* submittedAt - dueDate rounded up to whole days: one second late is 1 day,
\* 24 hours late is 1 day, 24 hours and one second late is 2 days; the
\* deduction is not capped at the raw points' worth, the result is 0 then.
C6_LatePenaltyFormula ==
  (GradedOk /\ GradedSub.isLate /\ GradedDoc.latePenalty > 0)
  => LET p == last.points
         lp == GradedDoc.latePenalty
         Charged(d) == IF p * (100 - lp * d) > 0 THEN p * (100 - lp * d) ELSE 0
     IN /\ \E d \in -(MaxDays + 1)..(MaxDays + 1) :
             /\ (d - 1) * MsPerDay < GradedLateness
             /\ GradedLateness <= d * MsPerDay
             /\ GradedSub.grade.points = Charged(d)
        /\ GradedLateness = 1000 => GradedSub.grade.points = Charged(1)
        /\ GradedLateness = MsPerDay => GradedSub.grade.points = Charged(1)
        /\ GradedLateness = MsPerDay + 1000 => GradedSub.grade.points = Charged(2)
        /\ (lp = 100 /\ GradedLateness > MsPerDay) => GradedSub.grade.points = 0
\* latePenalty 20, 24 hours and one second late, 90 raw points: 54 are stored.
C6_Witness ==
  /\ GradedOk
  /\ GradedSub.isLate /\ GradedDoc.latePenalty = 20
  /\ GradedLateness = MsPerDay + 1000
  /\ last.points = 90 /\ GradedSub.grade.points = 5400

\* C7: an accepted submission's isLate is submittedAt > dueDate, and no later
\* step changes the isLate or the submittedAt of a stored submission.
C7_IsLateFrozen ==
  [][/\ (SubmitStep /\ last'.result = "ok")
        => LET new == store'[last'.aid].submissions
           IN new[Len(new)].isLate = (new[Len(new)].submittedAt > store[last'.aid].dueDate)
     /\ \A a \in DOMAIN store \cap DOMAIN store' :
          \A i \in 1..Len(store[a].submissions), j \in 1..Len(store'[a].submissions) :
            store[a].submissions[i].id = store'[a].submissions[j].id
            => /\ store'[a].submissions[j].isLate = store[a].submissions[i].isLate
               /\ store'[a].submissions[j].submittedAt = store[a].submissions[i].submittedAt
    ]_vars

\* C8: a submit to an unpublished assessment fails with NotPublished and
\* writes nothing, whatever the due date, allowLateSubmission and the
\* submissions already stored.
C8_UnpublishedRejected ==
  [][(SubmitStep /\ ~store[last'.aid].isPublished)
     => (last'.result = "NotPublished" /\ store' = store)]_vars
\* An unpublished assessment past its due date, closed to late submissions,
\* refused with NotPublished a student who already has a submission in it.
C8_Witness ==
  /\ last.op = "submit" /\ last.result = "NotPublished"
  /\ HasSubmission(store[last.aid], last.user)
  /\ now > store[last.aid].dueDate /\ ~store[last.aid].allowLateSubmission

\* C9: a first submit to a published assessment after the due date fails with
\* SubmissionClosed and writes nothing when allowLateSubmission is false, and
\* appends one submission with isLate true and status submitted when it is
\* true; at or before the due date it appends one with isLate false.
C9_DeadlinePolicy ==
  [][(SubmitStep /\ store[last'.aid].isPublished
        /\ ~HasSubmission(store[last'.aid], last'.user))
     => IF now > store[last'.aid].dueDate
        THEN IF store[last'.aid].allowLateSubmission
             THEN Appended(TRUE)
             ELSE last'.result = "SubmissionClosed" /\ store' = store
        ELSE Appended(FALSE)]_vars
\* A late submission was accepted and is stored as late and submitted.
C9_Witness ==
  /\ last.op = "submit" /\ last.result = "ok"
  /\ last.aid \in DOMAIN store
  /\ now > store[last.aid].dueDate /\ store[last.aid].allowLateSubmission
  /\ LET subs == store[last.aid].submissions
     IN /\ Len(subs) >= 1
        /\ subs[Len(subs)].id = last.sid
        /\ subs[Len(subs)].student = last.user
        /\ subs[Len(subs)].isLate
        /\ subs[Len(subs)].status = "submitted"

\* C10: a submit by a student who already has a submission in a published
\* assessment fails with DuplicateSubmission, also past a deadline closed to
\* late submissions, and leaves the submissions as they were.
C10_DuplicateRejected ==
  [][(SubmitStep /\ store[last'.aid].isPublished
        /\ HasSubmission(store[last'.aid], last'.user))
     => (last'.result = "DuplicateSubmission" /\ store' = store)]_vars
\* A duplicate was refused on a published assessment past its due date that
\* is closed to late submissions.
C10_Witness ==
  /\ last.op = "submit" /\ last.result = "DuplicateSubmission"
  /\ store[last.aid].isPublished
  /\ now > store[last.aid].dueDate /\ ~store[last.aid].allowLateSubmission

\* The principal of the response is the admin or the instructor the stored
\* assessment names.
Privileged(u, doc) == u = "adm" \/ doc.instructor = u

\* A step that handles an update, delete, grade or list-submissions request for
\* an assessment that exists, with a body that passed validation.
OwnerStep ==
  /\ last = NoResponse
  /\ last'.op \in {"update", "delete", "grade", "submissions"}
  /\ last'.aid \in DOMAIN store
  /\ last'.result # "ValidationError"

\* C11: update, delete, grade and list-submissions on an existing assessment
\* are refused with Forbidden exactly when the principal is neither admin nor
\* the instructor the stored assessment names at that moment, and a refused
\* request leaves the store as it was.
C11_OwnerOrAdminOnly ==
  [][OwnerStep
     => /\ last'.result = "Forbidden" <=> ~Privileged(last'.user, store[last'.aid])
        /\ last'.result = "Forbidden" => store' = store]_vars
\* After an update named stu1 the instructor of an assessment that holds a
\* submission, ins1 was refused a grade.
C11_Witness ==
  /\ last.op = "grade" /\ last.result = "Forbidden" /\ last.user = "ins1"
  /\ last.aid \in DOMAIN store
  /\ store[last.aid].instructor = "stu1"
  /\ Len(store[last.aid].submissions) >= 1

\* A successful get-by-id response and the assessment it is about.
GotOk == last.op = "get" /\ last.result = "ok"
GotDoc == store[last.aid]

\* C12: get-by-id returns to a principal who is neither admin nor the
\* assessment's instructor exactly the stored submissions of that principal, in
\* their stored order, and to the instructor and an admin all of them.
C12_OwnSubmissionsOnly ==
  GotOk =>
    IF Privileged(last.user, GotDoc)
    THEN last.subs = GotDoc.submissions
    ELSE /\ GotDoc.isPublished
         /\ \A i \in 1..Len(last.subs) : last.subs[i].student = last.user
         /\ \A i \in 1..Len(GotDoc.submissions) :
              GotDoc.submissions[i].student = last.user
              => \E j \in 1..Len(last.subs) : last.subs[j] = GotDoc.submissions[i]
         /\ \A j \in 1..Len(last.subs) :
              \E i \in 1..Len(GotDoc.submissions) : last.subs[j] = GotDoc.submissions[i]
         /\ Len(last.subs) = Cardinality({i \in 1..Len(GotDoc.submissions) :
                                            GotDoc.submissions[i].student = last.user})
\* A student got one submission, their own, of an assessment that stores two.
C12_Witness ==
  /\ GotOk /\ last.user = "stu2" /\ ~Privileged(last.user, GotDoc)
  /\ Len(GotDoc.submissions) = 2
  /\ GotDoc.submissions[1].student = "stu1"
  /\ Len(last.subs) = 1 /\ last.subs[1] = GotDoc.submissions[2]

\* C13: get-by-id of an unpublished assessment by a principal who is neither
\* admin nor its instructor fails with Forbidden; a list never holds an
\* unpublished assessment of which the principal is neither admin nor
\* instructor, an instructor's list (not admin) holds only assessments of that
\* instructor, and a student's list holds only published ones.
C13_UnpublishedHidden ==
  /\ (last.op = "get" /\ last.aid \in DOMAIN store
        /\ ~store[last.aid].isPublished /\ ~Privileged(last.user, store[last.aid]))
     => last.result = "Forbidden"
  /\ last.op = "list"
     => \A a \in last.listed :
          /\ a \in DOMAIN store
          /\ (~store[a].isPublished => Privileged(last.user, store[a]))
          /\ (last.user = "ins1" => store[a].instructor = "ins1")
          /\ (last.user \in Students => store[a].isPublished)
\* ins1 listed its own unpublished assessment and not the admin's.
C13_Witness ==
  /\ last.op = "list" /\ last.user = "ins1" /\ last.listed = {"a1"}
  /\ DOMAIN store = {"a1", "a2"}
  /\ ~store["a1"].isPublished
  /\ store["a2"].instructor = "adm" /\ ~store["a2"].isPublished

\* A step that handles a grade request with a body that passed validation, for
\* an assessment that exists and stores no submission, so that whatever
\* submission id the request names is absent.
GradeAbsentStep ==
  /\ last = NoResponse
  /\ last'.op = "grade"
  /\ last'.result # "ValidationError"
  /\ last'.aid \in DOMAIN store
  /\ store[last'.aid].submissions = <<>>

\* C16 (as claimed): a grade request that names an absent submission fails with
\* NotFound for every principal.
C16_SubmissionBeforeAuth ==
  [][GradeAbsentStep => last'.result = "NotFound"]_vars
\* C16 (amended): a grade request that names an absent submission fails with
\* Forbidden for a principal who is neither admin nor the assessment's
\* instructor, and with NotFound for the admin and the instructor.
C16_AuthBeforeSubmission ==
  [][GradeAbsentStep
     => last'.result = IF Privileged(last'.user, store[last'.aid])
                       THEN "NotFound" ELSE "Forbidden"]_vars
\* A student was refused a grade on an assessment that stores no submission.
C16_Witness ==
  /\ last.op = "grade" /\ last.result = "Forbidden" /\ last.user \in Students
  /\ last.aid \in DOMAIN store
  /\ ~Privileged(last.user, store[last.aid])
  /\ store[last.aid].submissions = <<>>

\* The kinds of failure a request ends in.
Failures == {"ValidationError", "NotFound", "Forbidden", "NotPublished",
             "DuplicateSubmission", "SubmissionClosed"}

\* C14: a create, update, delete, submit or grade request that ends in a
\* failure leaves the whole assessment store as it was before the request.
C14_FailureWritesNothing ==
  [][(/\ last = NoResponse
      /\ last'.op \in {"create", "update", "delete", "submit", "grade"}
      /\ last'.result \in Failures)
     => store' = store]_vars
\* A submit was refused as past the deadline on an assessment that holds the
\* submission of another student, and holds nothing of the refused one.
C14_Witness ==
  /\ last.op = "submit" /\ last.result = "SubmissionClosed"
  /\ last.aid \in DOMAIN store
  /\ Len(store[last.aid].submissions) = 1
  /\ ~HasSubmission(store[last.aid], last.user)

\* C15: no step changes the course or the instructor of an assessment that
\* stays in the store.
C15_CourseInstructorFixed ==
  [][\A a \in DOMAIN store \cap DOMAIN store' :
       /\ store'[a].course = store[a].course
       /\ store'[a].instructor = store[a].instructor]_vars

\* Requests r1 and r2 both graded the same submission with the same raw
\* points, r1 before r2.
SameGrading(r1, r2) ==
  /\ r1 < r2
  /\ reqs[r1].pc = "done" /\ reqs[r1].result = "ok"
  /\ reqs[r2].pc = "done" /\ reqs[r2].result = "ok"
  /\ reqs[r1].aid = reqs[r2].aid
  /\ reqs[r1].sub.id = reqs[r2].sub.id
  /\ reqs[r1].points = reqs[r2].points

\* C17: a regrade with the same raw points stores the same points as the grade
\* before it, whatever was stored in between, and status graded; with the same
\* grader at the same time it stores the same grade altogether.
C17_RegradeDeterministic ==
  \A r1, r2 \in 1..NumReqs :
    SameGrading(r1, r2)
    => /\ reqs[r2].sub.grade.points = reqs[r1].sub.grade.points
       /\ reqs[r2].sub.status = "graded"
       /\ (/\ reqs[r1].user = reqs[r2].user
           /\ reqs[r1].sub.grade.gradedAt = reqs[r2].sub.grade.gradedAt)
          => reqs[r2].sub = reqs[r1].sub
\* A submission 24 hours and a second late under latePenalty 20, graded 90 and
\* stored as 54, was graded 90 again by the same grader at the same time and is
\* stored as 54.
C17_Witness ==
  /\ SameGrading(1, 2)
  /\ reqs[1].user = reqs[2].user
  /\ reqs[1].sub.grade.gradedAt = reqs[2].sub.grade.gradedAt
  /\ reqs[2].points = 90
  /\ reqs[2].doc.submissions[1].status = "graded"
  /\ reqs[2].doc.submissions[1].grade.points = 5400
  /\ store[reqs[2].aid].submissions[1].grade.points = 5400

\* C18: while an assessment stays in the store no step removes a stored
\* submission, moves it to another position, or changes its student, content
\* or submittedAt: the stored sequence only grows at its end.
C18_AppendOnly ==
  [][\A a \in DOMAIN store \cap DOMAIN store' :
       /\ Len(store'[a].submissions) >= Len(store[a].submissions)
       /\ \A i \in 1..Len(store[a].submissions) :
            /\ i <= Len(store'[a].submissions)
            /\ store'[a].submissions[i].id = store[a].submissions[i].id
            /\ store'[a].submissions[i].student = store[a].submissions[i].student
            /\ store'[a].submissions[i].content = store[a].submissions[i].content
            /\ store'[a].submissions[i].submittedAt = store[a].submissions[i].submittedAt
    ]_vars

\* Every stored submission is submitted without a grade or graded with one.
StatusMatchesGrade(doc) ==
  \A i \in 1..Len(doc.submissions) :
    \/ doc.submissions[i].status = "submitted" /\ doc.submissions[i].grade = NoGrade
    \/ doc.submissions[i].status = "graded" /\ doc.submissions[i].grade # NoGrade

\* C19: every step leaves each stored submission submitted without a grade or
\* graded with one, stores a new submission as submitted, and never takes a
\* stored submission from graded back to submitted.
C19_StatusLifecycle ==
  [][\A a \in DOMAIN store' :
       /\ StatusMatchesGrade(store'[a])
       /\ a \in DOMAIN store
          => \A j \in 1..Len(store'[a].submissions) :
               IF \E i \in 1..Len(store[a].submissions) :
                    store[a].submissions[i].id = store'[a].submissions[j].id
               THEN \A i \in 1..Len(store[a].submissions) :
                      (/\ store[a].submissions[i].id = store'[a].submissions[j].id
                       /\ store[a].submissions[i].status = "graded")
                      => store'[a].submissions[j].status = "graded"
               ELSE store'[a].submissions[j].status = "submitted"
    ]_vars

\* C20: every stored assessment has latePenalty within 0..100 and maxPoints
\* above 0.
C20_RangesKept ==
  \A a \in DOMAIN store :
    /\ store[a].latePenalty >= 0 /\ store[a].latePenalty <= 100
    /\ store[a].maxPoints > 0

====
